---- MODULE Spec2Model ----
(***************************************************************************)
(* The filter compiler of store/postgres/src/filter.rs: store_filter       *)
(* rewrites a boxed `SELECT data FROM entities` statement by appending the *)
(* predicates of a StoreFilter tree, or returns UnsupportedFilter.         *)
(*                                                                         *)
(* Text is a sequence of character codes (ASCII), so that the conversions  *)
(* the compiler applies (to_string, serde_json::to_string, from_str) are   *)
(* computed and not assumed.                                               *)
(***************************************************************************)
EXTENDS Integers, Sequences, FiniteSets, TLC

VARIABLES query, filter, result, pc, frames, server, service, resolver

vars == <<query, filter, result, pc, frames, server, service, resolver>>

\* The components the filter compiler does not touch.
others == <<server, service, resolver>>

(***************************************************************************)
(* Bounds of the model.                                                    *)
(***************************************************************************)
\* The largest filter tree compiled, counted in nodes (leaves and And/Or).
MaxNodes == 5

\* The number of threads calling store_filter at the same time.
MaxCallers == 2

(***************************************************************************)
(* Value: the closed variant type of thegraph::data::store.  The payload   *)
(* is a tuple of integers under every variant: the characters of a String, *)
(* the bytes of a Bytes, the (integer) elements of a List, <<n>> for Int,  *)
(* Float and BigInt, <<0>> or <<1>> for Bool and <<>> for Null.            *)
(***************************************************************************)
Val(variant, v) == [variant |-> variant, v |-> v]

Variants == {"String", "Int", "Float", "Bool", "BigInt", "Bytes", "List", "Null"}

NullValue == Val("Null", <<>>)

\* The attributes "a" and "b".
Attributes == {<<97>>, <<98>>}

(***************************************************************************)
(* StoreFilter: a node is a composite (And, Or: children) or a leaf (kind, *)
(* attribute, value).  "In" stands for the variants of StoreFilter that    *)
(* store_filter_by_mode has no arm for.                                    *)
(***************************************************************************)
Composites == {"And", "Or"}

EqualityKinds == {"Equal", "Not"}

OrderingKinds == {"GreaterThan", "LessThan", "GreaterOrEqual", "LessOrEqual"}

ContainmentKinds == {"Contains", "NotContains"}

LeafKinds == EqualityKinds \cup OrderingKinds \cup ContainmentKinds

Leaf(kind, attribute, value) ==
    [kind |-> kind, attribute |-> attribute, value |-> value, children |-> <<>>]

Composite(kind, children) ==
    [kind |-> kind, attribute |-> <<>>, value |-> NullValue, children |-> children]

(***************************************************************************)
(* The conversions of values to text.                                      *)
(***************************************************************************)
RECURSIVE DecimalString(_)
\* BigInt::to_string (and the decimal text of an integer): sign and digits.
DecimalString(n) ==
    IF n < 0 THEN <<45>> \o DecimalString(0 - n)
    ELSE IF n < 10 THEN <<48 + n>>
    ELSE DecimalString(n \div 10) \o <<48 + (n % 10)>>

IsDigits(s) == Len(s) > 0 /\ \A i \in 1..Len(s) : s[i] \in 48..57

RECURSIVE DigitsValue(_)
DigitsValue(s) ==
    IF s = <<>> THEN 0
    ELSE 10 * DigitsValue(SubSeq(s, 1, Len(s) - 1)) + (s[Len(s)] - 48)

\* BigDecimal::from_str on a decimal integer text: Ok(n), or Err when the
\* text is no number.
BigDecimalFromStr(s) ==
    IF Len(s) > 1 /\ s[1] = 45 /\ IsDigits(Tail(s))
        THEN [ok |-> TRUE, n |-> 0 - DigitsValue(Tail(s))]
    ELSE IF IsDigits(s) THEN [ok |-> TRUE, n |-> DigitsValue(s)]
    ELSE [ok |-> FALSE, n |-> 0]

HexDigit(d) == IF d < 10 THEN 48 + d ELSE 87 + d

RECURSIVE HexOf(_)
HexOf(bytes) ==
    IF bytes = <<>> THEN <<>>
    ELSE <<HexDigit(Head(bytes) \div 16), HexDigit(Head(bytes) % 16)>> \o HexOf(Tail(bytes))

\* Bytes::to_string: "0x" and the bytes in hexadecimal.
BytesToString(bytes) == <<48, 120>> \o HexOf(bytes)

RECURSIVE JoinDecimal(_, _)
JoinDecimal(xs, sep) ==
    IF xs = <<>> THEN <<>>
    ELSE IF Len(xs) = 1 THEN DecimalString(xs[1])
    ELSE DecimalString(xs[1]) \o sep \o JoinDecimal(Tail(xs), sep)

\* serde_json::to_string of a List: the JSON array text, elements in order.
JsonOfList(xs) == <<91>> \o JoinDecimal(xs, <<44>>) \o <<93>>

\* serde_json::to_string of a Bytes: the JSON string of its hexadecimal text.
JsonOfBytes(bytes) == <<34>> \o BytesToString(bytes) \o <<34>>

(***************************************************************************)
(* Predicates.  A predicate is the sequence of literal SQL fragments and   *)
(* bound parameters the compiler chains (sql(..).bind(..).sql(..)...),     *)
(* negated when wrapped in not(..).                                        *)
(***************************************************************************)
Sql(s) == [t |-> "sql", s |-> s, ty |-> "", v |-> <<>>]

Bind(ty, v) == [t |-> "bind", s |-> "", ty |-> ty, v |-> v]

Pred(frags) == [neg |-> FALSE, frags |-> frags]

NotPred(frags) == [neg |-> TRUE, frags |-> frags]

(***************************************************************************)
(* The query: its WHERE clause is the chain of predicates appended so far, *)
(* each with the connective that attached it to the ones before ("" for    *)
(* the first); `rest` is everything else of the statement.                 *)
(***************************************************************************)
Query(where, rest) == [where |-> where, rest |-> rest]

EmptyQuery == Query(<<>>, "SELECT data FROM entities")

Ok(q) == [tag |-> "Ok", query |-> q, filter |-> "", value |-> NullValue]

Err(name, value) == [tag |-> "Err", query |-> EmptyQuery, filter |-> name, value |-> value]

Panic == [tag |-> "Panic", query |-> EmptyQuery, filter |-> "", value |-> NullValue]

NoResult == [tag |-> "None", query |-> EmptyQuery, filter |-> "", value |-> NullValue]

\* BoxedSelectStatement::filter: the first predicate becomes the WHERE
\* clause, a later one is attached with AND.
Filter(q, predicate) ==
    Query(Append(q.where, [conn |-> IF q.where = <<>> THEN "" ELSE "AND",
                           pred |-> predicate]), q.rest)

\* BoxedSelectStatement::or_filter: as filter, with OR (grouped).
OrFilter(q, predicate) ==
    Query(Append(q.where, [conn |-> IF q.where = <<>> THEN "" ELSE "OR",
                           pred |-> predicate]), q.rest)

\* add_filter that replaces the WHERE clause by the predicate.
add_filter_replacing(q, filter_mode, predicate) ==
    Query(<<[conn |-> "", pred |-> predicate]>>, q.rest)

\* add_filter that ignores the mode.
add_filter_and_only(q, filter_mode, predicate) == Filter(q, predicate)

add_filter(q, filter_mode, predicate) ==
    IF filter_mode = "And" THEN Filter(q, predicate) ELSE OrFilter(q, predicate)

(***************************************************************************)
(* store_filter_by_mode, arm by arm.                                       *)
(***************************************************************************)
\* OpOf with GreaterOrEqual given the symbol of GreaterThan.
OpOfSlip(kind) ==
    CASE kind = "Equal" -> "="
      [] kind = "Not" -> "!="
      [] kind = "GreaterThan" -> ">"
      [] kind = "LessThan" -> "<"
      [] kind = "GreaterOrEqual" -> ">"
      [] kind = "LessOrEqual" -> "<="

\* OpOf with GreaterThan given the symbol of GreaterOrEqual.
OpOfGreaterInclusive(kind) ==
    CASE kind = "Equal" -> "="
      [] kind = "Not" -> "!="
      [] kind = "GreaterThan" -> ">="
      [] kind = "LessThan" -> "<"
      [] kind = "GreaterOrEqual" -> ">="
      [] kind = "LessOrEqual" -> "<="

\* The operator symbol of an Equal/Not or ordering node.
OpOf(kind) ==
    CASE kind = "Equal" -> "="
      [] kind = "Not" -> "!="
      [] kind = "GreaterThan" -> ">"
      [] kind = "LessThan" -> "<"
      [] kind = "GreaterOrEqual" -> ">="
      [] kind = "LessOrEqual" -> "<="

\* NumericOf through the text of the magnitude: the sign is lost.
NumericOfMagnitude(n) == BigDecimalFromStr(DecimalString(IF n < 0 THEN 0 - n ELSE n))

\* The Numeric parameter of a BigInt: through its decimal text.
NumericOf(n) == BigDecimalFromStr(DecimalString(n))

\* The filter names of the containment errors.
ContainsName == "contains"

\* NotContainsName copied from the Contains arm.
NotContainsNameCopied == "contains"

NotContainsName == "not_contains"

\* NullPredicate on the field extracted as text.
NullPredicateText(attribute) ==
    Pred(<<Sql("data ->> "), Bind("Text", attribute), Sql(" = 'null' ")>>)

\* NullPredicate with the attribute name formatted into the SQL text.
NullPredicateInlined(attribute) ==
    Pred(<<Sql(IF attribute = <<97>> THEN "data -> 'a'" ELSE "data -> 'b'"),
           Sql(" = 'null' ")>>)

\* The predicate of Equal/Not on Null: the raw (uncast) field against the
\* JSON null literal.
NullPredicate(attribute) ==
    Pred(<<Sql("data -> "), Bind("Text", attribute), Sql(" = 'null' ")>>)

\* StoreFilter::Contains(attribute, value).
CompileContains(q, filter_mode, attribute, value) ==
    CASE value.variant = "String" ->
            Ok(add_filter(q, filter_mode,
                Pred(<<Sql("data ->> "), Bind("Text", attribute),
                       Sql(" LIKE "), Bind("Text", value.v)>>)))
      [] value.variant = "Bytes" ->
            Ok(add_filter(q, filter_mode,
                Pred(<<Sql("data ->> "), Bind("Text", attribute),
                       Sql(" LIKE "), Bind("Text", BytesToString(value.v))>>)))
      [] value.variant = "List" ->
            Ok(add_filter(q, filter_mode,
                Pred(<<Sql("data ->> "), Bind("Text", attribute),
                       Sql(" @> "), Bind("Text", JsonOfList(value.v))>>)))
      [] value.variant \in {"Null", "Float", "Int", "Bool", "BigInt"} ->
            Err(ContainsName, value)

\* CompileEquality whose List arm serialises the list with its elements
\* sorted.
CompileEqualitySortedList(q, filter_mode, kind, attribute, value) ==
    LET op == OpOf(kind) IN
    CASE value.variant = "String" ->
            Ok(add_filter(q, filter_mode,
                Pred(<<Sql("("), Sql("data ->> "), Bind("Text", attribute), Sql(")"),
                       Sql(op), Bind("Text", value.v)>>)))
      [] value.variant = "Float" ->
            Ok(add_filter(q, filter_mode,
                Pred(<<Sql("("), Sql("data ->> "), Bind("Text", attribute), Sql(")"),
                       Sql("::float"), Sql(op), Bind("Float", value.v)>>)))
      [] value.variant = "Int" ->
            Ok(add_filter(q, filter_mode,
                Pred(<<Sql("(data ->> "), Bind("Text", attribute), Sql(")"),
                       Sql("::int"), Sql(op), Bind("Integer", value.v)>>)))
      [] value.variant = "Bool" ->
            Ok(add_filter(q, filter_mode,
                Pred(<<Sql("(data ->> "), Bind("Text", attribute), Sql(")"),
                       Sql("::boolean"), Sql(op), Bind("Bool", value.v)>>)))
      [] value.variant = "Null" ->
            Ok(add_filter(q, filter_mode, NullPredicate(attribute)))
      [] value.variant = "List" ->
            Ok(add_filter(q, filter_mode,
                Pred(<<Sql("data ->> "), Bind("Text", attribute),
                       Sql(op),
                       Bind("Text", JsonOfList(SortSeq(value.v, LAMBDA x, y : x < y)))>>)))
      [] value.variant = "Bytes" ->
            Ok(add_filter(q, filter_mode,
                Pred(<<Sql("(data ->> "), Bind("Text", attribute),
                       Sql(op), Bind("Text", JsonOfBytes(value.v))>>)))
      [] value.variant = "BigInt" ->
            LET d == NumericOf(value.v[1]) IN
            IF ~d.ok THEN Panic
            ELSE Ok(add_filter(q, filter_mode,
                Pred(<<Sql("(data ->> "), Bind("Text", attribute), Sql(")"),
                       Sql("::numeric"), Sql(op), Bind("Numeric", <<d.n>>)>>)))

\* StoreFilter::Equal(..) | StoreFilter::Not(..).
CompileEquality(q, filter_mode, kind, attribute, value) ==
    LET op == OpOf(kind) IN
    CASE value.variant = "String" ->
            Ok(add_filter(q, filter_mode,
                Pred(<<Sql("("), Sql("data ->> "), Bind("Text", attribute), Sql(")"),
                       Sql(op), Bind("Text", value.v)>>)))
      [] value.variant = "Float" ->
            Ok(add_filter(q, filter_mode,
                Pred(<<Sql("("), Sql("data ->> "), Bind("Text", attribute), Sql(")"),
                       Sql("::float"), Sql(op), Bind("Float", value.v)>>)))
      [] value.variant = "Int" ->
            Ok(add_filter(q, filter_mode,
                Pred(<<Sql("(data ->> "), Bind("Text", attribute), Sql(")"),
                       Sql("::int"), Sql(op), Bind("Integer", value.v)>>)))
      [] value.variant = "Bool" ->
            Ok(add_filter(q, filter_mode,
                Pred(<<Sql("(data ->> "), Bind("Text", attribute), Sql(")"),
                       Sql("::boolean"), Sql(op), Bind("Bool", value.v)>>)))
      [] value.variant = "Null" ->
            Ok(add_filter(q, filter_mode, NullPredicate(attribute)))
      [] value.variant = "List" ->
            Ok(add_filter(q, filter_mode,
                Pred(<<Sql("data ->> "), Bind("Text", attribute),
                       Sql(op), Bind("Text", JsonOfList(value.v))>>)))
      [] value.variant = "Bytes" ->
            Ok(add_filter(q, filter_mode,
                Pred(<<Sql("(data ->> "), Bind("Text", attribute),
                       Sql(op), Bind("Text", JsonOfBytes(value.v))>>)))
      [] value.variant = "BigInt" ->
            LET d == NumericOf(value.v[1]) IN
            IF ~d.ok THEN Panic
            ELSE Ok(add_filter(q, filter_mode,
                Pred(<<Sql("(data ->> "), Bind("Text", attribute), Sql(")"),
                       Sql("::numeric"), Sql(op), Bind("Numeric", <<d.n>>)>>)))

\* CompileOrdering whose Int arm was copied from the Float arm: the field is
\* cast with ::float and the parameter bound as Float.
CompileOrderingIntAsFloat(q, filter_mode, kind, attribute, value) ==
    LET op == OpOf(kind) IN
    CASE value.variant = "String" ->
            Ok(add_filter(q, filter_mode,
                Pred(<<Sql("data ->> "), Bind("Text", attribute),
                       Sql(op), Bind("Text", value.v)>>)))
      [] value.variant \in {"Float", "Int"} ->
            Ok(add_filter(q, filter_mode,
                Pred(<<Sql("(data ->> "), Bind("Text", attribute), Sql(")"),
                       Sql("::float"), Sql(op), Bind("Float", value.v)>>)))
      [] value.variant = "BigInt" ->
            LET d == NumericOf(value.v[1]) IN
            IF ~d.ok THEN Panic
            ELSE Ok(add_filter(q, filter_mode,
                Pred(<<Sql("(data ->> "), Bind("Text", attribute), Sql(")"),
                       Sql("::numeric"), Sql(op), Bind("Numeric", <<d.n>>)>>)))
      [] value.variant \in {"Null", "Bool", "List", "Bytes"} ->
            Err(op, value)

\* StoreFilter::GreaterThan(..) | LessThan(..) | GreaterOrEqual(..) |
\* LessOrEqual(..).  (`query_value as f32` on a Float leaves the f32 of
\* Value::Float as it is.)
CompileOrdering(q, filter_mode, kind, attribute, value) ==
    LET op == OpOf(kind) IN
    CASE value.variant = "String" ->
            Ok(add_filter(q, filter_mode,
                Pred(<<Sql("data ->> "), Bind("Text", attribute),
                       Sql(op), Bind("Text", value.v)>>)))
      [] value.variant = "Float" ->
            Ok(add_filter(q, filter_mode,
                Pred(<<Sql("(data ->> "), Bind("Text", attribute), Sql(")"),
                       Sql("::float"), Sql(op), Bind("Float", value.v)>>)))
      [] value.variant = "Int" ->
            Ok(add_filter(q, filter_mode,
                Pred(<<Sql("(data ->> "), Bind("Text", attribute), Sql(")"),
                       Sql("::int"), Sql(op), Bind("Integer", value.v)>>)))
      [] value.variant = "BigInt" ->
            LET d == NumericOf(value.v[1]) IN
            IF ~d.ok THEN Panic
            ELSE Ok(add_filter(q, filter_mode,
                Pred(<<Sql("(data ->> "), Bind("Text", attribute), Sql(")"),
                       Sql("::numeric"), Sql(op), Bind("Numeric", <<d.n>>)>>)))
      [] value.variant \in {"Null", "Bool", "List", "Bytes"} ->
            Err(op, value)

\* StoreFilter::NotContains(attribute, value).
CompileNotContains(q, filter_mode, attribute, value) ==
    CASE value.variant = "String" ->
            Ok(add_filter(q, filter_mode,
                Pred(<<Sql("data ->> "), Bind("Text", attribute),
                       Sql(" NOT LIKE "), Bind("Text", value.v)>>)))
      [] value.variant = "Bytes" ->
            Ok(add_filter(q, filter_mode,
                Pred(<<Sql("data ->> "), Bind("Text", attribute),
                       Sql(" NOT LIKE "), Bind("Text", BytesToString(value.v))>>)))
      [] value.variant = "List" ->
            Ok(add_filter(q, filter_mode,
                NotPred(<<Sql("data ->> "), Bind("Text", attribute),
                          Sql(" @> "), Bind("Text", JsonOfList(value.v))>>)))
      [] value.variant \in {"Null", "Float", "Int", "Bool", "BigInt"} ->
            Err(NotContainsName, value)

\* ChildMode that hands the mode received down to the children.
ChildModeInherited(kind, filter_mode) == filter_mode

\* ChildMode that compiles every child in And mode.
ChildModeAlwaysAnd(kind, filter_mode) == "And"

\* The mode a composite compiles its children in.
ChildMode(kind, filter_mode) == IF kind = "And" THEN "And" ELSE "Or"

\* CompileLeaf with no arm for NotContains.
CompileLeafNoNotContains(q, f, filter_mode) ==
    CASE f.kind = "Contains" -> CompileContains(q, filter_mode, f.attribute, f.value)
      [] f.kind \in EqualityKinds ->
            CompileEquality(q, filter_mode, f.kind, f.attribute, f.value)
      [] f.kind \in OrderingKinds ->
            CompileOrdering(q, filter_mode, f.kind, f.attribute, f.value)
      [] OTHER -> Panic

\* The arms of the leaf nodes; a kind with no arm is unimplemented!().
CompileLeaf(q, f, filter_mode) ==
    CASE f.kind = "Contains" -> CompileContains(q, filter_mode, f.attribute, f.value)
      [] f.kind \in EqualityKinds ->
            CompileEquality(q, filter_mode, f.kind, f.attribute, f.value)
      [] f.kind \in OrderingKinds ->
            CompileOrdering(q, filter_mode, f.kind, f.attribute, f.value)
      [] f.kind = "NotContains" -> CompileNotContains(q, filter_mode, f.attribute, f.value)
      [] OTHER -> Panic

RECURSIVE store_filter_by_mode(_, _, _)
RECURSIVE try_fold(_, _, _)
\* try_fold that starts an empty fold from the predicate FALSE.
try_fold_from_false(q, filters, child_mode) ==
    IF filters = <<>> THEN Ok(add_filter(q, child_mode, Pred(<<Sql("FALSE")>>)))
    ELSE LET r == store_filter_by_mode(q, Head(filters), child_mode) IN
         IF r.tag # "Ok" THEN r
         ELSE IF Tail(filters) = <<>> THEN r
         ELSE try_fold(r.query, Tail(filters), child_mode)

\* Iterator::try_fold over the children: each Ok query is threaded to the
\* next child, the first Err ends the fold.
try_fold(q, filters, child_mode) ==
    IF filters = <<>> THEN Ok(q)
    ELSE LET r == store_filter_by_mode(q, Head(filters), child_mode) IN
         IF r.tag = "Ok" THEN try_fold(r.query, Tail(filters), child_mode) ELSE r

store_filter_by_mode(q, f, filter_mode) ==
    IF f.kind \in Composites
        THEN try_fold(q, f.children, ChildMode(f.kind, filter_mode))
    ELSE CompileLeaf(q, f, filter_mode)

store_filter(q, f) == store_filter_by_mode(q, f, "And")

(***************************************************************************)
(* The store the query runs against.  An entity is a document: each        *)
(* attribute is absent or holds a value (variant "Absent" for absent).     *)
(* The operators below give the WHERE clause its meaning as the database   *)
(* evaluates it: "t", "f", "n" (SQL NULL), "e" (the evaluation fails, e.g. *)
(* a cast of text that is no number) or "x" (the statement is rejected:    *)
(* malformed text, or an operator the types do not have).                  *)
(***************************************************************************)
Absent == Val("Absent", <<>>)

StoredValues ==
    {Absent, NullValue, Val("Int", <<1>>), Val("Int", <<2>>), Val("Int", <<3>>),
     Val("String", <<120>>), Val("String", <<120, 121>>), Val("Bool", <<1>>),
     Val("Bytes", <<1>>), Val("List", <<1, 2>>)}

Entities == [Attributes -> StoredValues]

\* `data ->> attribute`: the field as text; SQL NULL (ok = FALSE) when the
\* field is absent or JSON null.
FieldText(value) ==
    CASE value.variant \in {"Absent", "Null"} -> [ok |-> FALSE, s |-> <<>>]
      [] value.variant = "String" -> [ok |-> TRUE, s |-> value.v]
      [] value.variant \in {"Int", "BigInt"} -> [ok |-> TRUE, s |-> DecimalString(value.v[1])]
      [] value.variant = "Float" ->
            [ok |-> TRUE, s |-> DecimalString(value.v[1]) \o <<46, 48>>]
      [] value.variant = "Bool" ->
            [ok |-> TRUE, s |-> IF value.v[1] = 1 THEN <<116, 114, 117, 101>>
                                ELSE <<102, 97, 108, 115, 101>>]
      [] value.variant = "Bytes" -> [ok |-> TRUE, s |-> BytesToString(value.v)]
      [] value.variant = "List" ->
            [ok |-> TRUE, s |-> <<91>> \o JoinDecimal(value.v, <<44, 32>>) \o <<93>>]

\* text::int and text::numeric / text::float of the texts above: the number
\* (fractions are ".0" only), or a failure.
CastNumber(s, integer_only) ==
    LET n == Len(s) IN
    IF ~integer_only /\ n > 2 /\ s[n - 1] = 46 /\ s[n] = 48
        THEN BigDecimalFromStr(SubSeq(s, 1, n - 2))
    ELSE BigDecimalFromStr(s)

\* text::boolean.
CastBoolean(s) ==
    IF s \in {<<116, 114, 117, 101>>, <<116>>, <<49>>} THEN [ok |-> TRUE, n |-> 1]
    ELSE IF s \in {<<102, 97, 108, 115, 101>>, <<102>>, <<48>>} THEN [ok |-> TRUE, n |-> 0]
    ELSE [ok |-> FALSE, n |-> 0]

RECURSIVE TextLess(_, _)
TextLess(s, t) ==
    IF t = <<>> THEN FALSE
    ELSE IF s = <<>> THEN TRUE
    ELSE IF Head(s) # Head(t) THEN Head(s) < Head(t)
    ELSE TextLess(Tail(s), Tail(t))

RECURSIVE Like(_, _)
\* text LIKE pattern: % matches any run of characters, _ any one character.
Like(s, pattern) ==
    IF pattern = <<>> THEN s = <<>>
    ELSE IF Head(pattern) = 37
        THEN Like(s, Tail(pattern)) \/ (s # <<>> /\ Like(Tail(s), pattern))
    ELSE s # <<>> /\ (Head(pattern) = 95 \/ Head(pattern) = Head(s))
                  /\ Like(Tail(s), Tail(pattern))

Truth(b) == IF b THEN "t" ELSE "f"

Compare(op, less, equal) ==
    CASE op = "=" -> Truth(equal)
      [] op = "!=" -> Truth(~equal)
      [] op = "<" -> Truth(less)
      [] op = ">" -> Truth(~less /\ ~equal)
      [] op = "<=" -> Truth(less \/ equal)
      [] op = ">=" -> Truth(~less)

Not3(a) == CASE a = "t" -> "f" [] a = "f" -> "t" [] OTHER -> a

\* a AND b, a OR b: SQL's three-valued connectives, evaluated left to right.
And3(a, b) ==
    CASE a \in {"e", "x"} -> a
      [] a = "f" -> "f"
      [] b \in {"e", "x"} -> b
      [] b = "f" -> "f"
      [] a = "n" \/ b = "n" -> "n"
      [] OTHER -> "t"

Or3(a, b) ==
    CASE a \in {"e", "x"} -> a
      [] a = "t" -> "t"
      [] b \in {"e", "x"} -> b
      [] b = "t" -> "t"
      [] a = "n" \/ b = "n" -> "n"
      [] OTHER -> "f"

Opens(frag) == IF frag.t = "sql" /\ frag.s \in {"(", "(data ->> "} THEN 1 ELSE 0

Closes(frag) == IF frag.t = "sql" /\ frag.s = ")" THEN 1 ELSE 0

RECURSIVE Depth(_)
\* The parentheses left open by a sequence of fragments.
Depth(frags) ==
    IF frags = <<>> THEN 0
    ELSE Depth(SubSeq(frags, 1, Len(frags) - 1))
            + Opens(frags[Len(frags)]) - Closes(frags[Len(frags)])

\* The literal text of a predicate is well-formed: every parenthesis it
\* opens it closes.
WellFormed(p) == Depth(p.frags) = 0

SqlTexts(p) == {p.frags[i].s : i \in {j \in 1..Len(p.frags) : p.frags[j].t = "sql"}}

Binds(p) == SelectSeq(p.frags, LAMBDA fr : fr.t = "bind")

Casts == {"::int", "::float", "::numeric", "::boolean"}

CompareOps == {"=", "!=", "<", ">", "<=", ">="}

\* One predicate on one entity.
EvalBare(p, entity) ==
    LET texts == SqlTexts(p)
        field == entity[Binds(p)[1].v]
        text == FieldText(field)
        param == Binds(p)[Len(Binds(p))]
        cast == IF texts \cap Casts = {} THEN "" ELSE CHOOSE c \in texts \cap Casts : TRUE
        op == IF texts \cap CompareOps = {} THEN ""
              ELSE CHOOSE o \in texts \cap CompareOps : TRUE
    IN
    IF ~WellFormed(p) THEN "x"
    ELSE IF "data -> " \in texts THEN
        \* jsonb = 'null'::jsonb
        IF field.variant = "Absent" THEN "n" ELSE Truth(field.variant = "Null")
    ELSE IF " @> " \in texts THEN "x"    \* no operator text @> text
    ELSE IF ~text.ok THEN "n"
    ELSE IF " = 'null' " \in texts THEN Truth(text.s = <<110, 117, 108, 108>>)
    ELSE IF " LIKE " \in texts THEN Truth(Like(text.s, param.v))
    ELSE IF " NOT LIKE " \in texts THEN Truth(~Like(text.s, param.v))
    ELSE IF cast = "" THEN Compare(op, TextLess(text.s, param.v), text.s = param.v)
    ELSE LET c == IF cast = "::boolean" THEN CastBoolean(text.s)
                  ELSE CastNumber(text.s, cast = "::int") IN
         IF ~c.ok THEN "e" ELSE Compare(op, c.n < param.v[1], c.n = param.v[1])

EvalPred(p, entity) ==
    IF p.neg THEN Not3(EvalBare(p, entity)) ELSE EvalBare(p, entity)

RECURSIVE EvalChain(_, _)
\* The WHERE clause as appended: ((p1 c2 p2) c3 p3) ...
EvalChain(where, entity) ==
    LET n == Len(where) IN
    IF n = 1 THEN EvalPred(where[1].pred, entity)
    ELSE LET left == EvalChain(SubSeq(where, 1, n - 1), entity) IN
         IF where[n].conn = "AND" THEN And3(left, EvalPred(where[n].pred, entity))
         ELSE Or3(left, EvalPred(where[n].pred, entity))

\* A statement with a malformed predicate is rejected as a whole; one with
\* no WHERE clause selects every entity.
EvalWhere(where, entity) ==
    IF where = <<>> THEN "t"
    ELSE IF \E i \in 1..Len(where) : EvalPred(where[i].pred, entity) = "x" THEN "x"
    ELSE EvalChain(where, entity)

Selects(q, entity) == EvalWhere(q.where, entity) = "t"

(***************************************************************************)
(* The inputs: the base queries and the filter trees compiled.             *)
(***************************************************************************)
GridValues ==
    {Val("String", <<120>>), Val("String", <<120, 37>>),
     Val("Int", <<1>>), Val("Int", <<2>>),
     Val("Float", <<1>>),
     Val("Bool", <<0>>), Val("Bool", <<1>>),
     Val("BigInt", <<7>>), Val("BigInt", <<0>>), Val("BigInt", <<0 - 120>>),
     Val("BigInt", <<10>>),
     Val("Bytes", <<1>>), Val("Bytes", <<1, 171>>),
     Val("List", <<>>), Val("List", <<1, 2>>), Val("List", <<2, 1>>),
     NullValue}

\* Every (operator, value) leaf, and a leaf of a kind the compiler has no
\* arm for.
GridLeaves ==
    {Leaf(k, a, v) : k \in LeafKinds \cup {"In"}, a \in Attributes, v \in GridValues}

\* The leaves the composite trees are built from: Equal(a, 1), Equal(b, 3),
\* Equal(a, Bytes), the unsupported GreaterThan(a, Bool) and a leaf of a
\* kind without an arm.
TreeLeaves ==
    {Leaf("Equal", <<97>>, Val("Int", <<1>>)),
     Leaf("Equal", <<98>>, Val("Int", <<3>>)),
     Leaf("Equal", <<97>>, Val("Bytes", <<1>>)),
     Leaf("GreaterThan", <<97>>, Val("Bool", <<1>>)),
     Leaf("In", <<97>>, Val("String", <<120>>))}

\* A tree shape is a tree whose leaves are all Hole.
Hole == Leaf("Hole", <<>>, NullValue)

RECURSIVE ShapeForests(_)
RECURSIVE Shapes(_)
\* The sequences of shapes with m nodes in all.
ShapeForests(m) ==
    IF m = 0 THEN {<<>>}
    ELSE UNION {{<<t>> \o rest : t \in Shapes(k), rest \in ShapeForests(m - k)} : k \in 1..m}

\* The shapes with n nodes.
Shapes(n) ==
    IF n = 1 THEN {Hole} \cup {Composite(c, <<>>) : c \in Composites}
    ELSE {Composite(c, children) : c \in Composites, children \in ShapeForests(n - 1)}

RECURSIVE Holes(_)
RECURSIVE HolesIn(_)
\* The number of leaves of a sequence of trees, and of a tree.
HolesIn(ts) == IF ts = <<>> THEN 0 ELSE Holes(Head(ts)) + HolesIn(Tail(ts))

Holes(t) == IF t.kind \in Composites THEN HolesIn(t.children) ELSE 1

RECURSIVE Fill(_, _)
RECURSIVE FillAll(_, _)
\* The trees of a sequence of shapes with their leaves, left to right,
\* taken from `leaves`.
FillAll(ts, leaves) ==
    IF ts = <<>> THEN <<>>
    ELSE LET n == Holes(Head(ts)) IN
         <<Fill(Head(ts), SubSeq(leaves, 1, n))>>
            \o FillAll(Tail(ts), SubSeq(leaves, n + 1, Len(leaves)))

Fill(t, leaves) ==
    IF t.kind \in Composites THEN Composite(t.kind, FillAll(t.children, leaves))
    ELSE leaves[1]

AllShapes == UNION {Shapes(n) : n \in 1..MaxNodes}

\* A caller's query: the bare statement, or one already filtered (and
\* sorted) by the caller.
BasePredicate == Pred(<<Sql("(data ->> "), Bind("Text", <<97>>), Sql(")"),
                        Sql("::int"), Sql("="), Bind("Integer", <<1>>)>>)

BaseQueries ==
    {EmptyQuery,
     Query(<<[conn |-> "", pred |-> BasePredicate]>>, "SELECT data FROM entities ORDER BY id")}

(***************************************************************************)
(* The state machine: a caller holds (query, filter) and calls             *)
(* store_filter once, as one step (frames is used by the concurrent        *)
(* callers below only).                                                    *)
(***************************************************************************)
Init ==
    /\ query \in BaseQueries
    /\ \/ filter \in GridLeaves
       \/ \E shape \in AllShapes : \E leaves \in [1..Holes(shape) -> TreeLeaves] :
             filter = Fill(shape, leaves)
    /\ result = NoResult
    /\ pc = "ready"
    /\ frames = <<>>
    /\ server = <<>>
    /\ service = <<>>
    /\ resolver = <<>>

StoreFilter ==
    /\ pc = "ready"
    /\ result' = store_filter(query, filter)
    /\ pc' = "done"
    /\ UNCHANGED <<query, filter, frames, others>>

Next == StoreFilter

Spec == Init /\ [][Next]_vars

(***************************************************************************)
(* Several threads calling store_filter at the same time.  Caller c holds  *)
(* query[c] and filter[c]; frames[c] is the state of its call: the query   *)
(* the fold has reached (acc) and the nodes still to compile, each with    *)
(* the mode it is compiled in (work, the pending recursive calls).  One    *)
(* step is one activation of store_filter_by_mode.  `overlapped` records   *)
(* that the call took a step while another call was running.               *)
(***************************************************************************)
Callers == 1..MaxCallers

Item(f, filter_mode) == [f |-> f, mode |-> filter_mode]

Items(filters, filter_mode) == [i \in 1..Len(filters) |-> Item(filters[i], filter_mode)]

\* The inputs of the concurrent callers.
ConcurrentInputs ==
    LET x == Leaf("Equal", <<97>>, Val("Int", <<1>>))
        y == Leaf("Equal", <<98>>, Val("Int", <<3>>))
        u == Leaf("GreaterThan", <<97>>, Val("Bool", <<1>>))
        filtered == Query(<<[conn |-> "", pred |-> BasePredicate]>>,
                          "SELECT data FROM entities ORDER BY id")
    IN {[query |-> EmptyQuery, filter |-> Composite("And", <<Composite("Or", <<x, y>>), x>>)],
        [query |-> filtered, filter |-> Composite("Or", <<y, x>>)],
        [query |-> EmptyQuery, filter |-> Composite("And", <<x, u, y>>)],
        [query |-> filtered, filter |-> Leaf("Contains", <<98>>, Val("String", <<120>>))]}

\* Accumulator as one query shared by all calls (the first caller's).
AccumulatorShared(fs, c) == fs[CHOOSE d \in DOMAIN fs : \A e \in DOMAIN fs : d <= e].acc

\* The query a call folds its next predicate onto: the one it owns (the
\* `query` argument is passed by value).
Accumulator(fs, c) == fs[c].acc

Overlaps(c) == \E d \in Callers \ {c} : pc[d] = "running"

ConcurrentInit ==
    /\ \E input \in [Callers -> ConcurrentInputs] :
          /\ query = [c \in Callers |-> input[c].query]
          /\ filter = [c \in Callers |-> input[c].filter]
    /\ result = [c \in Callers |-> NoResult]
    /\ pc = [c \in Callers |-> "ready"]
    /\ frames = [c \in Callers |-> [acc |-> EmptyQuery, work |-> <<>>, overlapped |-> FALSE]]
    /\ server = <<>>
    /\ service = <<>>
    /\ resolver = <<>>

\* store_filter: the call of store_filter_by_mode in And mode.
Call(c) ==
    /\ pc[c] = "ready"
    /\ pc' = [pc EXCEPT ![c] = "running"]
    /\ frames' = [frames EXCEPT ![c] = [acc |-> query[c],
                                         work |-> <<Item(filter[c], "And")>>,
                                         overlapped |-> Overlaps(c)]]
    /\ UNCHANGED <<query, filter, result, others>>

\* store_filter_by_mode on And/Or: the children are folded next, in order.
Descend(c) ==
    /\ pc[c] = "running"
    /\ frames[c].work # <<>>
    /\ Head(frames[c].work).f.kind \in Composites
    /\ LET top == Head(frames[c].work) IN
       frames' = [frames EXCEPT
                     ![c].work = Items(top.f.children, ChildMode(top.f.kind, top.mode))
                                    \o Tail(@),
                     ![c].overlapped = @ \/ Overlaps(c)]
    /\ UNCHANGED <<query, filter, result, pc, others>>

\* store_filter_by_mode on a leaf: its predicate is added to the query, or
\* the call ends with the leaf's Err (or panic), which `?` hands up.
CompileOne(c) ==
    /\ pc[c] = "running"
    /\ frames[c].work # <<>>
    /\ Head(frames[c].work).f.kind \notin Composites
    /\ LET top == Head(frames[c].work)
           r == CompileLeaf(Accumulator(frames, c), top.f, top.mode)
       IN IF r.tag = "Ok"
              THEN /\ frames' = [frames EXCEPT ![c].acc = r.query,
                                               ![c].work = Tail(@),
                                               ![c].overlapped = @ \/ Overlaps(c)]
                   /\ UNCHANGED <<result, pc>>
          ELSE /\ frames' = [frames EXCEPT ![c].work = <<>>,
                                           ![c].overlapped = @ \/ Overlaps(c)]
               /\ result' = [result EXCEPT ![c] = r]
               /\ pc' = [pc EXCEPT ![c] = "done"]
    /\ UNCHANGED <<query, filter, others>>

\* The outermost fold is over: the call returns Ok(query).
Return(c) ==
    /\ pc[c] = "running"
    /\ frames[c].work = <<>>
    /\ result' = [result EXCEPT ![c] = Ok(Accumulator(frames, c))]
    /\ pc' = [pc EXCEPT ![c] = "done"]
    /\ frames' = [frames EXCEPT ![c].overlapped = @ \/ Overlaps(c)]
    /\ UNCHANGED <<query, filter, others>>

ConcurrentNext == \E c \in Callers : Call(c) \/ Descend(c) \/ CompileOne(c) \/ Return(c)

Concurrent == ConcurrentInit /\ [][ConcurrentNext]_vars

(***************************************************************************)
(* GraphQLServer of server/http/src/server.rs.  `server` holds the fields  *)
(* of the struct (query_sink, schema), the schema event channel and the    *)
(* task that new() spawns on it, and what the callers observe: the ports   *)
(* bound on the host, the number of query channels created, the events     *)
(* accepted by the schema event sink, and the value the last call of       *)
(* query_stream or serve returned.                                         *)
(***************************************************************************)
\* The number of schema events sent to the server.
MaxEvents == 3

\* The number of calls of query_stream and serve.
MaxCalls == 3

\* channel(100): the buffer of the schema event channel.
Capacity == 100

None == [tag |-> "None"]

Some(x) == [tag |-> "Some", value |-> x]

\* A schema: an id and a document, the set of the names of the types it
\* defines.
Schema(id, document) == [id |-> id, document |-> document]

InputSchemas ==
    { Schema("input-schema", {"User"}),
      Schema("other-schema", {"Account", "User"}),
      Schema("clashing-schema", {"Query"}) }

SchemaAdded(schema) == [event |-> "SchemaAdded", schema |-> schema]

SchemaRemoved(schema) == [event |-> "SchemaRemoved", schema |-> schema]

SchemaEvents ==
    {SchemaAdded(s) : s \in InputSchemas} \cup {SchemaRemoved(Schema("input-schema", {"User"}))}

\* api_schema: the input document with the Query type added; the derivation
\* fails when the document already defines the type it adds.
api_schema(document) ==
    IF "Query" \in document
    THEN [tag |-> "Err", document |-> {}]
    ELSE [tag |-> "Ok", document |-> document \cup {"Query"}]

\* The ports a caller asks serve to listen on.
Ports == {8000, 8001}

\* What a call returned: Ok(value), a channel or a port by its number, or
\* Err(error).
Returned(call, tag, error, value) ==
    [call |-> call, tag |-> tag, error |-> error, value |-> value]

\* GraphQLServer::new: no query sink, no schema, an empty schema event
\* channel with the handler task spawned on it.  A port of the host may be
\* held by another process.
ServerInit ==
    /\ query = <<>>
    /\ filter = <<>>
    /\ result = <<>>
    /\ pc = <<>>
    /\ frames = <<>>
    /\ service = <<>>
    /\ resolver = <<>>
    /\ \E held \in {{}, {8000}} :
          server = [query_sink          |-> None,
                    schema              |-> None,
                    schema_event_stream |-> <<>>,
                    schema_task         |-> "running",
                    sent                |-> <<>>,
                    channels            |-> 0,
                    ports               |-> held,
                    returned            |-> Returned("", "None", "", 0),
                    calls               |-> 0]

ServerFrame == UNCHANGED <<query, filter, result, pc, frames, service, resolver>>

\* A holder of schema_event_sink() sends an event.  The send is accepted
\* while the receiver lives and the buffer has room.
SendSchemaEvent(event) ==
    /\ Len(server.sent) < MaxEvents
    /\ server.schema_task = "running"
    /\ Len(server.schema_event_stream) < Capacity
    /\ server' = [server EXCEPT !.schema_event_stream = Append(@, event),
                                !.sent = Append(@, event)]
    /\ ServerFrame

\* handle_schema_events: one turn of the for_each of the spawned task.  A
\* SchemaAdded event stores the derived schema, or is logged and dropped
\* when the derivation fails; any other event panics, which ends the task
\* and drops the receiver with the events still in the channel.
HandleSchemaEvent ==
    /\ server.schema_task = "running"
    /\ server.schema_event_stream # <<>>
    /\ LET event == Head(server.schema_event_stream)
           rest == Tail(server.schema_event_stream)
           derived == api_schema(event.schema.document)
       IN  IF event.event = "SchemaAdded"
           THEN IF derived.tag = "Ok"
                THEN server' = [server EXCEPT
                                   !.schema_event_stream = rest,
                                   !.schema = Some(Schema(event.schema.id, derived.document))]
                ELSE server' = [server EXCEPT !.schema_event_stream = rest]
           ELSE server' = [server EXCEPT !.schema_event_stream = <<>>,
                                         !.schema_task = "panicked"]
    /\ ServerFrame

\* query_stream that makes a new channel on every call.
QueryStreamAlways ==
    /\ server.calls < MaxCalls
    /\ LET sink == server.channels + 1
       IN  server' = [server EXCEPT !.query_sink = Some(sink),
                                    !.channels = sink,
                                    !.returned = Returned("query_stream", "Ok", "", sink),
                                    !.calls = @ + 1]
    /\ ServerFrame

\* query_stream: the channel is made when there is no query sink yet.  The
\* channels are numbered in the order they are made; the sink kept and the
\* stream returned carry the number of their channel.
QueryStream ==
    /\ server.calls < MaxCalls
    /\ IF server.query_sink # None
       THEN server' = [server EXCEPT
                          !.returned = Returned("query_stream", "Err", "AlreadyCreated", 0),
                          !.calls = @ + 1]
       ELSE LET sink == server.channels + 1
            IN  server' = [server EXCEPT
                              !.query_sink = Some(sink),
                              !.channels = sink,
                              !.returned = Returned("query_stream", "Ok", "", sink),
                              !.calls = @ + 1]
    /\ ServerFrame

\* serve without the check of the query sink.
ServeUnchecked(port) ==
    /\ server.calls < MaxCalls
    /\ IF port \in server.ports
       THEN server' = [server EXCEPT
                          !.returned = Returned("serve", "Err", "BindError", 0),
                          !.calls = @ + 1]
       ELSE server' = [server EXCEPT
                          !.ports = @ \cup {port},
                          !.returned = Returned("serve", "Ok", "", port),
                          !.calls = @ + 1]
    /\ ServerFrame

\* serve: OrphanError when there is no query sink; otherwise try_bind, which
\* fails when the port is held and binds it when it is free.  The task
\* returned keeps the port.
Serve(port) ==
    /\ server.calls < MaxCalls
    /\ IF server.query_sink = None
       THEN server' = [server EXCEPT
                          !.returned = Returned("serve", "Err", "OrphanError", 0),
                          !.calls = @ + 1]
       ELSE IF port \in server.ports
            THEN server' = [server EXCEPT
                               !.returned = Returned("serve", "Err", "BindError", 0),
                               !.calls = @ + 1]
            ELSE server' = [server EXCEPT
                               !.ports = @ \cup {port},
                               !.returned = Returned("serve", "Ok", "", port),
                               !.calls = @ + 1]
    /\ ServerFrame

ServerNext ==
    \/ \E event \in SchemaEvents : SendSchemaEvent(event)
    \/ HandleSchemaEvent
    \/ QueryStream
    \/ \E port \in Ports : Serve(port)

Server == ServerInit /\ [][ServerNext]_vars

\* The runtime polls a spawned task that has an event to take.
FairServer == Server /\ WF_vars(HandleSchemaEvent)

(***************************************************************************)
(* GraphQLService of server/http/src/service.rs.  `service` holds the      *)
(* schema and the query runner the service was made with, the request in   *)
(* hand, the Result the chain of futures of handle_graphql_query has       *)
(* reached, the number of times the runner was invoked for the request,    *)
(* and the response.                                                       *)
(***************************************************************************)
\* The number of requests a service handles.
MaxRequests == 2

Methods == {"GET", "POST", "OPTIONS"}

Paths == {"/", "/graphiql.css", "/graphiql.min.js", "/graphql", "/favicon.ico"}

\* The request bodies: one that cannot be read, one without a "query"
\* field, and one with a query.
Bodies == {"unreadable", "{}", "{\"query\": \"{ name }\"}"}

Requests == [method : Methods, path : Paths, body : Bodies]

\* What a query runner answers: a result with its data, or a QueryError.
RunnerAnswers ==
    { [tag |-> "Ok", kind |-> "", value |-> "Jordi"],
      [tag |-> "Ok", kind |-> "", value |-> "Ada"],
      [tag |-> "Err", kind |-> "QueryError", value |-> "query failed"] }

\* The schemas a service is made with: none yet, or the test schema.
ServiceSchemas == {None, Some(Schema("test-schema", {"String", "Query"}))}

Pending == [tag |-> "Pending", kind |-> "", value |-> ""]

\* GraphQLRequest::new(body, schema): a Query holds a schema and the
\* document of the "query" field, so there is none without a schema or
\* without that field.
GraphQLRequest(body, schema) ==
    IF schema = None
    THEN [tag |-> "Err", kind |-> "InternalError", value |-> "No schema available"]
    ELSE IF body = "{}"
         THEN [tag |-> "Err", kind |-> "ClientError",
               value |-> "The \"query\" field missing in request data"]
         ELSE [tag |-> "Ok", kind |-> "Query", value |-> "{ name }"]

\* The statuses GraphQLResponse::new may give an error of the kind.
ErrorStatuses(kind) == IF kind = "ClientError" THEN {400} ELSE {400, 500}

\* GraphQLResponse::new(result): a successful response carrying the data
\* of the result, or an error response carrying the message of the error.
GraphQLResponse(res, status) ==
    IF res.tag = "Ok"
    THEN [status |-> 200, data |-> res.value, errors |-> <<>>, body |-> ""]
    ELSE [status |-> status, data |-> "", errors |-> <<res.value>>, body |-> ""]

\* serve_file, handle_graphql_options and handle_not_found.
Plain(status, body) == [status |-> status, data |-> "", errors |-> <<>>, body |-> body]

NoResponse == Plain(0, "")

NoRequest == [method |-> "", path |-> "", body |-> ""]

\* GraphQLService::new.
ServiceInit ==
    /\ query = <<>>
    /\ filter = <<>>
    /\ result = <<>>
    /\ pc = <<>>
    /\ frames = <<>>
    /\ server = <<>>
    /\ resolver = <<>>
    /\ \E schema \in ServiceSchemas, runner \in RunnerAnswers :
          service = [schema   |-> schema,
                     runner   |-> runner,
                     request  |-> NoRequest,
                     result   |-> Pending,
                     runs     |-> 0,
                     response |-> NoResponse,
                     pc       |-> "idle",
                     handled  |-> 0]

ServiceFrame == UNCHANGED <<query, filter, result, pc, frames, server, resolver>>

\* call: the route of the request by method and path.  Every route but
\* POST /graphql has its response at once.
ServiceCall(request) ==
    /\ service.pc \in {"idle", "responded"}
    /\ service.handled < MaxRequests
    /\ LET static == request.method = "GET"
                     /\ request.path \in {"/", "/graphiql.css", "/graphiql.min.js"}
           started == [service EXCEPT !.request = request,
                                      !.result = Pending,
                                      !.runs = 0,
                                      !.response = NoResponse,
                                      !.handled = @ + 1]
       IN  IF static
           THEN service' = [started EXCEPT !.response = Plain(200, request.path),
                                           !.pc = "responded"]
           ELSE IF request.method = "POST" /\ request.path = "/graphql"
                THEN service' = [started EXCEPT !.pc = "body"]
                ELSE IF request.method = "OPTIONS" /\ request.path = "/graphql"
                     THEN service' = [started EXCEPT !.response = Plain(200, ""),
                                                     !.pc = "responded"]
                     ELSE service' = [started EXCEPT !.response = Plain(404, "Not found"),
                                                     !.pc = "responded"]
    /\ ServiceFrame

\* handle_graphql_query, concat2 and the first and_then: the body is read
\* and the request made of it and of the schema under the lock.
MakeRequest ==
    /\ service.pc = "body"
    /\ service' = [service EXCEPT
                      !.result = IF service.request.body = "unreadable"
                                 THEN [tag |-> "Err", kind |-> "InternalError",
                                       value |-> "Failed to read request body"]
                                 ELSE GraphQLRequest(service.request.body, service.schema),
                      !.pc = "query"]
    /\ ServiceFrame

\* The second stage run on an error as well.
RunQueryAlways ==
    /\ service.pc = "query"
    /\ service' = [service EXCEPT !.result = service.runner,
                                  !.runs = @ + 1,
                                  !.pc = "result"]
    /\ ServiceFrame

\* handle_graphql_query, the second and_then: the runner is invoked on the
\* query; an error of the stages before passes through.
RunQuery ==
    /\ service.pc = "query"
    /\ IF service.result.tag = "Ok"
       THEN service' = [service EXCEPT !.result = service.runner,
                                       !.runs = @ + 1,
                                       !.pc = "result"]
       ELSE service' = [service EXCEPT !.pc = "result"]
    /\ ServiceFrame

\* handle_graphql_query, then: the response made of the Result.
Respond ==
    /\ service.pc = "result"
    /\ \E status \in ErrorStatuses(service.result.kind) :
          service' = [service EXCEPT
                         !.response = GraphQLResponse(service.result, status),
                         !.pc = "responded"]
    /\ ServiceFrame

ServiceNext ==
    \/ \E request \in Requests : ServiceCall(request)
    \/ MakeRequest
    \/ RunQuery
    \/ Respond

Service == ServiceInit /\ [][ServiceNext]_vars

(***************************************************************************)
(* IntrospectionResolver of thegraph-graphql-utils/src/introspection/      *)
(* resolver.rs: the resolution of a list of enum or scalar values.  A      *)
(* q::Value is a variant with its text, or a List with its items.          *)
(* `resolver` holds the type and the value of a call and what it returned. *)
(***************************************************************************)
\* The longest list resolved.
MaxListLen == 3

QValue(variant, text) == [variant |-> variant, text |-> text, items |-> <<>>]

QList(items) == [variant |-> "List", text |-> "", items |-> items]

QNull == QValue("Null", "")

\* The values that are items of the lists.
QItems ==
    { QValue("Boolean", "true"), QValue("Float", "1.5"), QValue("Int", "1"),
      QValue("String", "a"), QValue("Enum", "RED"), QValue("Enum", "BLUE"),
      QNull, QList(<<>>) }

QLists == UNION { {QList(items) : items \in [1..n -> QItems]} : n \in 0..MaxListLen }

\* The value a field is resolved from: none, a list, or a value that is no
\* list.
QInputs == {None} \cup {Some(v) : v \in QLists \cup QItems}

\* s::ScalarType and s::EnumType: the name, and the values of an enum.
ScalarType(name) == [kind |-> "Scalar", name |-> name, values |-> <<>>]

EnumType(name, values) == [kind |-> "Enum", name |-> name, values |-> values]

QTypes ==
    { ScalarType("Boolean"), ScalarType("Float"), ScalarType("Int"),
      ScalarType("String"), ScalarType("ID"), EnumType("Color", <<"RED", "GREEN">>) }

coerce_scalar_value(t, value) ==
    IF value = None
    THEN None
    ELSE IF <<t.name, value.value.variant>> \in
               { <<"Boolean", "Boolean">>, <<"Float", "Float">>,
                 <<"Int", "Int">>, <<"String", "String">> }
         THEN Some(value.value)
         ELSE None

coerce_enum_value(t, value) ==
    IF value = None
    THEN None
    ELSE IF /\ value.value.variant = "Enum"
            /\ \E i \in 1..Len(t.values) : t.values[i] = value.value.text
         THEN Some(QValue("Enum", value.value.text))
         ELSE None

\* filter_map(..).collect(): the values of the options that are Some, in
\* their order.
RECURSIVE collect(_)
collect(options) ==
    IF options = <<>>
    THEN <<>>
    ELSE IF Head(options) = None
         THEN collect(Tail(options))
         ELSE <<Head(options).value>> \o collect(Tail(options))

resolve_enum_values(enum_type, value) ==
    IF value = None \/ value.value.variant # "List"
    THEN QNull
    ELSE LET values == value.value.items
             coerced_values ==
                 collect([i \in 1..Len(values) |->
                              coerce_enum_value(enum_type, Some(values[i]))])
         IN  IF Len(values) = Len(coerced_values)
             THEN QList(coerced_values)
             ELSE QNull

\* resolve_scalar_values without the comparison of the lengths.
resolve_scalar_values_lenient(scalar_type, value) ==
    IF value = None \/ value.value.variant # "List"
    THEN QNull
    ELSE LET values == value.value.items
         IN  QList(collect([i \in 1..Len(values) |->
                                coerce_scalar_value(scalar_type, Some(values[i]))]))

resolve_scalar_values(scalar_type, value) ==
    IF value = None \/ value.value.variant # "List"
    THEN QNull
    ELSE LET values == value.value.items
             coerced_values ==
                 collect([i \in 1..Len(values) |->
                              coerce_scalar_value(scalar_type, Some(values[i]))])
         IN  IF Len(values) = Len(coerced_values)
             THEN QList(coerced_values)
             ELSE QNull

\* A field of a type and the value it is resolved from.
ResolverInit ==
    /\ query = <<>>
    /\ filter = <<>>
    /\ result = <<>>
    /\ pc = <<>>
    /\ frames = <<>>
    /\ server = <<>>
    /\ service = <<>>
    /\ \E t \in QTypes, value \in QInputs :
          resolver = [type |-> t, value |-> value, returned |-> QNull, pc |-> "ready"]

ResolverFrame == UNCHANGED <<query, filter, result, pc, frames, server, service>>

ResolveEnumValues ==
    /\ resolver.pc = "ready"
    /\ resolver.type.kind = "Enum"
    /\ resolver' = [resolver EXCEPT
                       !.returned = resolve_enum_values(resolver.type, resolver.value),
                       !.pc = "done"]
    /\ ResolverFrame

ResolveScalarValues ==
    /\ resolver.pc = "ready"
    /\ resolver.type.kind = "Scalar"
    /\ resolver' = [resolver EXCEPT
                       !.returned = resolve_scalar_values(resolver.type, resolver.value),
                       !.pc = "done"]
    /\ ResolverFrame

ResolverNext == ResolveEnumValues \/ ResolveScalarValues

Resolver == ResolverInit /\ [][ResolverNext]_vars

(***************************************************************************)
(* The claims.                                                             *)
(***************************************************************************)
Done == pc = "done"

IsLeaf(f) == f.kind \in LeafKinds

\* The last predicate of a query's WHERE clause, with its connective.
Last(q) == q.where[Len(q.where)]

\* The predicate a leaf compiles to on its own.
OwnPredicate(leaf) == store_filter(EmptyQuery, leaf).query.where[1].pred

\* C1: compiling a leaf of one of the eight operators, whatever the variant
\* of its value, ends in Ok with exactly one predicate appended to the
\* query, or in Err(UnsupportedFilter); it never panics.
C1_LeafOkOrUnsupported ==
    (Done /\ IsLeaf(filter)) =>
        \/ /\ result.tag = "Ok"
           /\ Len(result.query.where) = Len(query.where) + 1
        \/ result.tag = "Err"

\* A leaf whose parameter goes through from_str(..).unwrap(), on a negative
\* BigInt, has been compiled and one predicate appended.
C1_Witness ==
    /\ Done
    /\ filter.kind = "LessOrEqual"
    /\ filter.value = Val("BigInt", <<0 - 120>>)
    /\ result.tag = "Ok"
    /\ Len(result.query.where) = Len(query.where) + 1

\* The symbol the claim gives each ordering operator.
OrderingSymbol(kind) ==
    CASE kind = "GreaterThan" -> ">"
      [] kind = "LessThan" -> "<"
      [] kind = "GreaterOrEqual" -> ">="
      [] kind = "LessOrEqual" -> "<="

\* C2: an ordering operator on a Bool, List, Bytes or Null value returns
\* UnsupportedFilter naming the operator's symbol and carrying the node's
\* value; on a String, Float, Int or BigInt value it returns Ok.
C2_OrderingRejects ==
    (Done /\ filter.kind \in OrderingKinds) =>
        IF filter.value.variant \in {"Bool", "List", "Bytes", "Null"}
            THEN /\ result.tag = "Err"
                 /\ result.filter = OrderingSymbol(filter.kind)
                 /\ result.value = filter.value
        ELSE result.tag = "Ok"

C2_Witness ==
    /\ Done
    /\ filter.kind = "GreaterOrEqual"
    /\ filter.value = Val("Bool", <<1>>)
    /\ result.tag = "Err"
    /\ result.filter = ">="

\* C3: Contains (NotContains) on a Null, Float, Int, Bool or BigInt value
\* returns UnsupportedFilter named "contains" ("not_contains") carrying the
\* value; on a String, Bytes or List value both return Ok.
C3_ContainmentRejects ==
    (Done /\ filter.kind \in ContainmentKinds) =>
        IF filter.value.variant \in {"Null", "Float", "Int", "Bool", "BigInt"}
            THEN /\ result.tag = "Err"
                 /\ result.filter =
                        (IF filter.kind = "Contains" THEN "contains" ELSE "not_contains")
                 /\ result.value = filter.value
        ELSE result.tag = "Ok"

C3_Witness ==
    /\ Done
    /\ filter.kind = "NotContains"
    /\ filter.value = Val("Int", <<2>>)
    /\ result.tag = "Err"
    /\ result.filter = "not_contains"

Supported(leaf) == IsLeaf(leaf) /\ store_filter(EmptyQuery, leaf).tag = "Ok"

\* What the database makes of one leaf's own predicate on an entity.
EvalLeaf(leaf, entity) == EvalPred(OwnPredicate(leaf), entity)

RECURSIVE LeavesOf(_)
LeavesOf(f) ==
    IF f.kind \in Composites
        THEN UNION {LeavesOf(f.children[i]) : i \in 1..Len(f.children)}
    ELSE {f}

RECURSIVE NoEmptyComposite(_)
NoEmptyComposite(f) ==
    f.kind \in Composites =>
        /\ f.children # <<>>
        /\ \A i \in 1..Len(f.children) : NoEmptyComposite(f.children[i])

\* Every leaf of the tree has a truth value (true, false or NULL) on the
\* entity: no predicate is rejected and no cast fails.
Clean(f, entity) == \A l \in LeavesOf(f) : EvalLeaf(l, entity) \in {"t", "f", "n"}

RECURSIVE Holds(_, _)
\* The boolean meaning of a tree on an entity: a leaf holds when its own
\* predicate is true, And when all its sub-filters hold, Or when at least
\* one does.
Holds(f, entity) ==
    CASE f.kind = "And" -> \A i \in 1..Len(f.children) : Holds(f.children[i], entity)
      [] f.kind = "Or" -> \E i \in 1..Len(f.children) : Holds(f.children[i], entity)
      [] OTHER -> EvalLeaf(f, entity) = "t"

\* C4 (as claimed): on a query that already carries a predicate P, the
\* compiled query selects exactly the entities that satisfy P and the
\* meaning of the tree, here for trees without empty composites and
\* entities on which every predicate has a truth value.
C4_ConjunctiveWithExisting ==
    (Done /\ result.tag = "Ok" /\ query.where # <<>> /\ NoEmptyComposite(filter)) =>
        \A e \in Entities :
            (Clean(filter, e) /\ EvalWhere(query.where, e) \in {"t", "f", "n"}) =>
                (Selects(result.query, e) <=> (Selects(query, e) /\ Holds(filter, e)))

\* C5 (as claimed): on a query with no predicate, the compiled predicate
\* of any And/Or tree of supported leaves is equivalent to the meaning of
\* the tree, here for trees without empty composites and entities on which
\* every predicate has a truth value.
C5_TreeMeaning ==
    (Done /\ result.tag = "Ok" /\ query.where = <<>> /\ NoEmptyComposite(filter)) =>
        \A e \in Entities :
            Clean(filter, e) => (Selects(result.query, e) <=> Holds(filter, e))

\* The filter is And([Or([x, y]), z]) for supported leaves x, y, z.
IsOrThenLeaf(f) ==
    /\ f.kind = "And"
    /\ Len(f.children) = 2
    /\ f.children[1].kind = "Or"
    /\ Len(f.children[1].children) = 2
    /\ Supported(f.children[1].children[1])
    /\ Supported(f.children[1].children[2])
    /\ Supported(f.children[2])

\* The statement holding px, py and pz is rejected when one of them is.
Rejected(leaves, entity) == \E l \in leaves : EvalLeaf(l, entity) = "x"

\* C6: And([Or([x, y]), z]) on a query with no predicate compiles to a
\* predicate equivalent to (x OR y) AND z: on every entity the WHERE clause
\* evaluates as the SQL expression (px OR py) AND pz of the three leaves'
\* predicates does, and where these have truth values the query selects
\* the entity iff (x or y) and z hold.
C6_OrInsideAnd ==
    (Done /\ query.where = <<>> /\ IsOrThenLeaf(filter)) =>
        LET x == filter.children[1].children[1]
            y == filter.children[1].children[2]
            z == filter.children[2]
        IN /\ result.tag = "Ok"
           /\ \A e \in Entities :
                /\ EvalWhere(result.query.where, e) =
                      (IF Rejected({x, y, z}, e) THEN "x"
                       ELSE And3(Or3(EvalLeaf(x, e), EvalLeaf(y, e)), EvalLeaf(z, e)))
                /\ Clean(filter, e) =>
                      (Selects(result.query, e) <=>
                          ((EvalLeaf(x, e) = "t" \/ EvalLeaf(y, e) = "t")
                              /\ EvalLeaf(z, e) = "t"))

\* And([Or([a = 1, b = 3]), a = 1]) has been compiled; it selects {a: 1,
\* b: 2} and not {a: 2, b: 3}.
C6_Witness ==
    /\ Done
    /\ query.where = <<>>
    /\ filter = Composite("And",
                  <<Composite("Or", <<Leaf("Equal", <<98>>, Val("Int", <<3>>)),
                                      Leaf("Equal", <<97>>, Val("Int", <<1>>))>>),
                    Leaf("Equal", <<97>>, Val("Int", <<1>>))>>)
    /\ result.tag = "Ok"
    /\ Selects(result.query, [a \in Attributes |->
            IF a = <<97>> THEN Val("Int", <<1>>) ELSE Val("Int", <<2>>)])
    /\ ~Selects(result.query, [a \in Attributes |->
            IF a = <<97>> THEN Val("Int", <<2>>) ELSE Val("Int", <<3>>)])

\* The filter is And(leaves) or Or(leaves) for a non-empty list of
\* supported leaves.
IsFlat(f) ==
    /\ f.kind \in Composites
    /\ f.children # <<>>
    /\ \A i \in 1..Len(f.children) : Supported(f.children[i])

RECURSIVE FlatValue(_, _, _)
\* The SQL expression l1 AND l2 AND ... (OR for Or) of the leaves' own
\* predicates, on an entity.
FlatValue(kind, leaves, entity) ==
    LET n == Len(leaves) IN
    IF n = 1 THEN EvalLeaf(leaves[1], entity)
    ELSE IF kind = "And"
        THEN And3(FlatValue(kind, SubSeq(leaves, 1, n - 1), entity), EvalLeaf(leaves[n], entity))
    ELSE Or3(FlatValue(kind, SubSeq(leaves, 1, n - 1), entity), EvalLeaf(leaves[n], entity))

\* C7: a flat non-empty And (Or) of supported leaves on a query with no
\* predicate compiles to the conjunction (disjunction) of the leaves'
\* predicates: on every entity the WHERE clause evaluates as that SQL
\* expression does, and where the leaves have truth values the query
\* selects the entity iff every leaf (at least one leaf) is true of it.
C7_FlatAndOr ==
    (Done /\ query.where = <<>> /\ IsFlat(filter)) =>
        LET ls == filter.children
            n == Len(ls)
        IN /\ result.tag = "Ok"
           /\ \A e \in Entities :
                /\ EvalWhere(result.query.where, e) =
                      (IF Rejected({ls[i] : i \in 1..n}, e) THEN "x"
                       ELSE FlatValue(filter.kind, ls, e))
                /\ Clean(filter, e) =>
                      (Selects(result.query, e) <=>
                          IF filter.kind = "And"
                              THEN \A i \in 1..n : EvalLeaf(ls[i], e) = "t"
                          ELSE \E i \in 1..n : EvalLeaf(ls[i], e) = "t")

\* Or([a = 1, b = 3]) has been compiled; it selects {a: 1, b: 2} and
\* {a: 2, b: 3} and not {a: 2, b: 2}.
C7_Witness ==
    /\ Done
    /\ query.where = <<>>
    /\ filter = Composite("Or", <<Leaf("Equal", <<97>>, Val("Int", <<1>>)),
                                  Leaf("Equal", <<98>>, Val("Int", <<3>>))>>)
    /\ result.tag = "Ok"
    /\ Selects(result.query, [a \in Attributes |->
            IF a = <<97>> THEN Val("Int", <<1>>) ELSE Val("Int", <<2>>)])
    /\ Selects(result.query, [a \in Attributes |->
            IF a = <<97>> THEN Val("Int", <<2>>) ELSE Val("Int", <<3>>)])
    /\ ~Selects(result.query, [a \in Attributes |-> Val("Int", <<2>>)])

\* The filter compiles a single leaf: the leaf itself, or And/Or of it.
SingleLeaf(f) ==
    \/ IsLeaf(f)
    \/ f.kind \in Composites /\ Len(f.children) = 1 /\ IsLeaf(f.children[1])

TheLeaf(f) == IF IsLeaf(f) THEN f ELSE f.children[1]

\* C8: compiling a single supported leaf only appends one predicate p to
\* the query: the predicates it carried stay as they were, p (the leaf's
\* predicate, the same in every query and mode) is attached with AND in
\* And mode and with OR in Or mode, and the rest of the query is unchanged.
C8_AppendsOnePredicate ==
    (Done /\ SingleLeaf(filter) /\ result.tag = "Ok") =>
        LET before == query.where
            after == result.query.where
        IN /\ result.query.rest = query.rest
           /\ Len(after) = Len(before) + 1
           /\ SubSeq(after, 1, Len(before)) = before
           /\ Last(result.query).pred = OwnPredicate(TheLeaf(filter))
           /\ Last(result.query).conn =
                 (IF before = <<>> THEN ""
                  ELSE IF filter.kind = "Or" THEN "OR" ELSE "AND")

\* A leaf has been compiled in Or mode on a query that carried a predicate.
C8_Witness ==
    /\ Done
    /\ query.where # <<>>
    /\ filter.kind = "Or"
    /\ SingleLeaf(filter)
    /\ result.tag = "Ok"
    /\ Len(result.query.where) = 2
    /\ Last(result.query).conn = "OR"

\* C9 (as claimed): for every variant, Not(attribute, v) compiles to the
\* predicate of Equal(attribute, v) with "!=" where Equal has "=", and no
\* entity is selected by both.
C9_NotIsInequality ==
    (Done /\ filter.kind = "Not") =>
        LET equal == Leaf("Equal", filter.attribute, filter.value) IN
        /\ result.tag = "Ok"
        /\ "!=" \in SqlTexts(Last(result.query).pred)
        /\ \A e \in Entities : ~(EvalLeaf(filter, e) = "t" /\ EvalLeaf(equal, e) = "t")

\* C10: Equal(attribute, Null) compiles to a predicate on the raw, uncast
\* field that is true of an entity iff the field is present and holds JSON
\* null; it is not true when the field is absent or holds another value.
C10_EqualNull ==
    (Done /\ filter.kind = "Equal" /\ filter.value.variant = "Null") =>
        /\ result.tag = "Ok"
        /\ LET p == Last(result.query).pred IN
           /\ "data -> " \in SqlTexts(p)
           /\ SqlTexts(p) \cap Casts = {}
           /\ \A e \in Entities :
                (EvalPred(p, e) = "t") <=> (e[filter.attribute] = NullValue)

\* Equal(a, Null) has been compiled on the bare query: it selects an entity
\* whose a is null, and neither one without a nor one whose a is 1.
C10_Witness ==
    /\ Done
    /\ query.where = <<>>
    /\ filter = Leaf("Equal", <<97>>, NullValue)
    /\ result.tag = "Ok"
    /\ Selects(result.query, [a \in Attributes |-> NullValue])
    /\ ~Selects(result.query, [a \in Attributes |-> Absent])
    /\ ~Selects(result.query, [a \in Attributes |-> Val("Int", <<1>>)])

\* The cast and the parameter type the claim gives each variant.
ExpectedCast(variant) ==
    CASE variant = "Float" -> {"::float"}
      [] variant = "Int" -> {"::int"}
      [] variant = "Bool" -> {"::boolean"}
      [] variant = "BigInt" -> {"::numeric"}
      [] variant \in {"String", "List", "Bytes"} -> {}

ExpectedBind(variant) ==
    CASE variant = "Float" -> "Float"
      [] variant = "Int" -> "Integer"
      [] variant = "Bool" -> "Bool"
      [] variant = "BigInt" -> "Numeric"
      [] variant \in {"String", "List", "Bytes"} -> "Text"

\* C11: for Equal/Not and the four ordering operators, the cast applied to
\* the extracted field and the SQL type of the bound parameter depend on
\* the variant of the value alone and are the same in both groups: String
\* none/Text, Float ::float/Float, Int ::int/Integer, Bool
\* ::boolean/Bool, BigInt ::numeric/Numeric, List and Bytes none/Text; the
\* attribute is bound as Text, and Equal/Not compile for each of these.
C11_CastAndBindByVariant ==
    (Done /\ filter.kind \in EqualityKinds \cup OrderingKinds
          /\ filter.value.variant # "Null") =>
        /\ filter.kind \in EqualityKinds => result.tag = "Ok"
        /\ result.tag = "Ok" =>
              LET p == Last(result.query).pred
                  params == Binds(p)
              IN /\ SqlTexts(p) \cap Casts = ExpectedCast(filter.value.variant)
                 /\ Len(params) = 2
                 /\ params[1] = Bind("Text", filter.attribute)
                 /\ params[2].ty = ExpectedBind(filter.value.variant)

\* LessThan on an Int has been compiled: the field is cast with ::int and
\* the parameter bound as Integer, as Equal on an Int does.
C11_Witness ==
    /\ Done
    /\ filter.kind = "LessThan"
    /\ filter.value = Val("Int", <<2>>)
    /\ result.tag = "Ok"
    /\ "::int" \in SqlTexts(Last(result.query).pred)
    /\ Binds(Last(result.query).pred)[2] = Bind("Integer", <<2>>)
    /\ SqlTexts(OwnPredicate(Leaf("Equal", filter.attribute, filter.value))) \cap Casts
          = {"::int"}

\* The lists with the elements of xs in another order.
Reorderings(xs) ==
    {[i \in 1..Len(xs) |-> xs[f[i]]] : f \in Permutations(1..Len(xs))} \ {xs}

\* C12: Equal(attribute, List(xs)) is order-sensitive: the parameter bound
\* is the serialisation of xs in the order given, compared uncast as one
\* text with "=", and an entity whose stored list has the elements of xs in
\* another order is not selected.
C12_ListEqualityOrderSensitive ==
    (Done /\ filter.kind = "Equal" /\ filter.value.variant = "List") =>
        /\ result.tag = "Ok"
        /\ LET p == Last(result.query).pred
               xs == filter.value.v
           IN /\ Binds(p)[2] = Bind("Text", JsonOfList(xs))
              /\ SqlTexts(p) \cap Casts = {}
              /\ SqlTexts(p) \cap CompareOps = {"="}
              /\ \A ys \in Reorderings(xs) :
                    /\ JsonOfList(ys) # JsonOfList(xs)
                    /\ \A e \in Entities :
                          e[filter.attribute] = Val("List", ys) => EvalPred(p, e) # "t"

\* Equal(a, [2, 1]) has been compiled on the bare query: the parameter is
\* the text [2,1] and an entity whose a is [1, 2] is not selected.
C12_Witness ==
    /\ Done
    /\ query.where = <<>>
    /\ filter = Leaf("Equal", <<97>>, Val("List", <<2, 1>>))
    /\ result.tag = "Ok"
    /\ Binds(Last(result.query).pred)[2].v = <<91, 50, 44, 49, 93>>
    /\ ~Selects(result.query, [a \in Attributes |-> Val("List", <<1, 2>>)])

\* C13 (as claimed): NotContains is the exact negation of Contains: for a
\* String, Bytes or List value and every entity, also one without the
\* attribute, NotContains(attribute, v) selects the entity iff
\* Contains(attribute, v) does not select it.
C13_NotContainsIsNegation ==
    (Done /\ filter.kind = "NotContains" /\ query.where = <<>> /\ result.tag = "Ok") =>
        LET contains == store_filter(EmptyQuery,
                            Leaf("Contains", filter.attribute, filter.value))
        IN /\ contains.tag = "Ok"
           /\ \A e \in Entities :
                 Selects(result.query, e) <=> ~Selects(contains.query, e)

\* s occurs in text as a substring.
Occurs(s, text) ==
    \E i \in 0..(Len(text) - Len(s)) : SubSeq(text, i + 1, i + Len(s)) = s

\* C14 (as claimed): Contains(attribute, String(s)) is a substring match:
\* it selects an entity iff s occurs in the text of the entity's attribute,
\* for every s, and NotContains(attribute, String(s)) selects it iff s does
\* not occur; here on the entities that have the attribute.
C14_ContainsIsSubstring ==
    (Done /\ filter.kind \in ContainmentKinds /\ filter.value.variant = "String"
          /\ query.where = <<>>) =>
        /\ result.tag = "Ok"
        /\ \A e \in Entities :
              LET text == FieldText(e[filter.attribute]) IN
              text.ok =>
                  (Selects(result.query, e) <=>
                      ((filter.kind = "Contains") <=> Occurs(filter.value.v, text.s)))

\* The entity whose `attribute` holds the big integer n (and nothing else).
Holding(attribute, n) ==
    [a \in Attributes |-> IF a = attribute THEN Val("BigInt", <<n>>) ELSE Absent]

\* C15 (as claimed): GreaterThan(attribute, BigInt(N)) compiles to a
\* predicate that is true of an entity whose attribute is exactly N and
\* false of one whose attribute is N - 1.
C15_GreaterThanAtN ==
    (Done /\ filter.kind = "GreaterThan" /\ filter.value.variant = "BigInt") =>
        /\ result.tag = "Ok"
        /\ LET p == Last(result.query).pred
               n == filter.value.v[1]
           IN /\ EvalPred(p, Holding(filter.attribute, n)) = "t"
              /\ EvalPred(p, Holding(filter.attribute, n - 1)) = "f"

\* C15 (amended): GreaterThan(attribute, BigInt(N)) compiles to a predicate
\* that is false of an entity whose attribute is exactly N (the comparison
\* is strict), true of one whose attribute is N + 1 and false of one whose
\* attribute is N - 1.
C15_GreaterThanStrict ==
    (Done /\ filter.kind = "GreaterThan" /\ filter.value.variant = "BigInt") =>
        /\ result.tag = "Ok"
        /\ LET p == Last(result.query).pred
               n == filter.value.v[1]
           IN /\ EvalPred(p, Holding(filter.attribute, n)) = "f"
              /\ EvalPred(p, Holding(filter.attribute, n + 1)) = "t"
              /\ EvalPred(p, Holding(filter.attribute, n - 1)) = "f"

\* GreaterThan(a, BigInt(10)) has been compiled on the bare query: it
\* selects an entity whose a is 11 and neither one whose a is 10 nor 9.
C15_Witness ==
    /\ Done
    /\ query.where = <<>>
    /\ filter = Leaf("GreaterThan", <<97>>, Val("BigInt", <<10>>))
    /\ result.tag = "Ok"
    /\ Selects(result.query, Holding(<<97>>, 11))
    /\ ~Selects(result.query, Holding(<<97>>, 10))
    /\ ~Selects(result.query, Holding(<<97>>, 9))

\* C16: for a BigInt value under Equal, Not and the four ordering
\* operators, the Numeric parameter bound is the value read back from the
\* value's decimal text, and that round trip (BigInt -> decimal text ->
\* BigDecimal) never fails and gives the same integer (an optional sign and
\* digits only, so the scale is 0), also for zero and negative values.
C16_BigIntRoundTrip ==
    (Done /\ filter.kind \in EqualityKinds \cup OrderingKinds
          /\ filter.value.variant = "BigInt") =>
        LET n == filter.value.v[1]
            text == DecimalString(n)
            back == BigDecimalFromStr(text)
        IN /\ result.tag = "Ok"
           /\ Binds(Last(result.query).pred)[2] = Bind("Numeric", <<back.n>>)
           /\ back.ok
           /\ back.n = n
           /\ IsDigits(IF n < 0 THEN Tail(text) ELSE text)

\* Not(b, BigInt(-120)) has been compiled: the text is "-120" and the
\* parameter bound is the Numeric -120.
C16_Witness ==
    /\ Done
    /\ filter = Leaf("Not", <<98>>, Val("BigInt", <<0 - 120>>))
    /\ result.tag = "Ok"
    /\ DecimalString(0 - 120) = <<45, 49, 50, 48>>
    /\ Binds(Last(result.query).pred)[2] = Bind("Numeric", <<0 - 120>>)

\* C17 (as claimed): compiling a filter of a kind the compiler has no arm
\* for (any other than And, Or and the eight leaf operators) does not
\* abort: it returns Err(UnsupportedFilter).
C17_UnimplementedIsErr ==
    (Done /\ filter.kind \notin Composites \cup LeafKinds) => result.tag = "Err"

RECURSIVE LeafSeq(_)
RECURSIVE LeafSeqOf(_)
\* The leaves of a tree (of a sequence of trees) in depth-first,
\* left-to-right order.
LeafSeqOf(ts) == IF ts = <<>> THEN <<>> ELSE LeafSeq(Head(ts)) \o LeafSeqOf(Tail(ts))

LeafSeq(f) == IF f.kind \in Composites THEN LeafSeqOf(f.children) ELSE <<f>>

\* The leaf raises UnsupportedFilter when compiled.
Unsupported(leaf) == store_filter(EmptyQuery, leaf).tag = "Err"

\* C18 (as claimed): through any nesting of And/Or, if a tree contains an
\* unsupported leaf, store_filter returns the Err of the first unsupported
\* leaf in depth-first left-to-right order (its filter name and value, and
\* no query); if it contains none, store_filter returns Ok.
C18_ErrorPropagation ==
    (Done /\ filter.kind \in Composites) =>
        LET leaves == LeafSeq(filter)
            bad == {i \in 1..Len(leaves) : Unsupported(leaves[i])}
        IN IF bad # {}
               THEN LET first == CHOOSE i \in bad : \A j \in bad : i <= j
                    IN result = Err(store_filter(EmptyQuery, leaves[first]).filter,
                                    leaves[first].value)
           ELSE result.tag = "Ok"

\* The literal SQL text of a predicate: its fragments in order, each bound
\* parameter reduced to a placeholder of its type, and whether it is
\* negated.
SqlText(p) ==
    [neg |-> p.neg,
     frags |-> [i \in 1..Len(p.frags) |->
                   IF p.frags[i].t = "bind" THEN Bind(p.frags[i].ty, <<>>)
                   ELSE p.frags[i]]]

\* The leaves of the same operator and variant as `leaf`.
Alike(leaf) ==
    {l \in GridLeaves : l.kind = leaf.kind /\ l.value.variant = leaf.value.variant}

\* C19: user data never enters the SQL text: in the predicate of a leaf the
\* attribute name is the first bound parameter and the value (when the
\* predicate has one) comes only through the second, and the literal text
\* is the same for every leaf of the same operator and variant, whatever
\* its attribute and value.
C19_NoUserDataInSqlText ==
    (Done /\ IsLeaf(filter) /\ result.tag = "Ok") =>
        LET p == Last(result.query).pred IN
        /\ \A l \in Alike(filter) :
              /\ Supported(l)
              /\ SqlText(OwnPredicate(l)) = SqlText(p)
        /\ Len(Binds(p)) \in {1, 2}
        /\ Binds(p)[1] = Bind("Text", filter.attribute)
        /\ Len(Binds(p)) = 1 <=> filter.value.variant = "Null"

\* Contains(b, "x%") has been compiled: its literal text is that of
\* Contains(a, "x"), and the two predicates differ in their parameters.
C19_Witness ==
    /\ Done
    /\ filter = Leaf("Contains", <<98>>, Val("String", <<120, 37>>))
    /\ result.tag = "Ok"
    /\ LET other == OwnPredicate(Leaf("Contains", <<97>>, Val("String", <<120>>)))
       IN /\ SqlText(Last(result.query).pred) = SqlText(other)
          /\ Last(result.query).pred # other
          /\ Binds(Last(result.query).pred) = <<Bind("Text", <<98>>), Bind("Text", <<120, 37>>)>>

RECURSIVE RunAlone(_, _)
\* The (acc, work) states a call passes through when it runs with no other
\* call, from the state (acc, work).
RunAlone(acc, work) ==
    {[acc |-> acc, work |-> work]} \cup
    IF work = <<>> THEN {}
    ELSE LET top == Head(work) IN
         IF top.f.kind \in Composites
             THEN RunAlone(acc, Items(top.f.children, ChildMode(top.f.kind, top.mode))
                                   \o Tail(work))
         ELSE LET r == CompileLeaf(acc, top.f, top.mode) IN
              IF r.tag = "Ok" THEN RunAlone(r.query, Tail(work)) ELSE {}

\* C20: concurrent compiles do not interfere: in every interleaving, a call
\* that has ended holds the result store_filter gives on its own (query,
\* filter) alone, two calls on the same input end with the same result, a
\* running call is in a state its run alone passes through, and a call
\* leaves the inputs of every caller as they were.
C20_NoInterference ==
    \A c \in Callers :
        /\ pc[c] = "done" => result[c] = store_filter(query[c], filter[c])
        /\ pc[c] = "running" =>
              [acc |-> frames[c].acc, work |-> frames[c].work]
                  \in RunAlone(query[c], <<Item(filter[c], "And")>>)
        /\ pc[c] # "done" => result[c] = NoResult
        /\ [query |-> query[c], filter |-> filter[c]] \in ConcurrentInputs
        /\ \A d \in Callers :
              (pc[c] = "done" /\ pc[d] = "done"
                  /\ query[c] = query[d] /\ filter[c] = filter[d]) =>
                  result[c] = result[d]

\* Two calls on different inputs have ended, each having taken steps while
\* the other was running: one returned Ok and the other Err, each as it
\* does alone.
C20_Witness ==
    \E c, d \in Callers :
        /\ pc[c] = "done" /\ pc[d] = "done"
        /\ frames[c].overlapped /\ frames[d].overlapped
        /\ filter[c] # filter[d]
        /\ result[c].tag = "Ok" /\ Len(result[c].query.where) = 3
        /\ result[d].tag = "Err"
        /\ result[c] = store_filter(query[c], filter[c])
        /\ result[d] = store_filter(query[d], filter[d])

RECURSIVE Attachments(_, _)
RECURSIVE AttachmentsOf(_, _)
\* The leaves of a tree in depth-first, left-to-right order, each with the
\* operator of its immediate parent (`parent` for the root).
AttachmentsOf(ts, parent) ==
    IF ts = <<>> THEN <<>>
    ELSE Attachments(Head(ts), parent) \o AttachmentsOf(Tail(ts), parent)

Attachments(f, parent) ==
    IF f.kind \in Composites THEN AttachmentsOf(f.children, f.kind)
    ELSE <<[leaf |-> f, parent |-> parent]>>

RECURSIVE LeftFold(_, _)
\* The WHERE clause `where` with the predicates of the attachments appended
\* one by one, each with AND or OR after its parent.
LeftFold(where, attachments) ==
    IF attachments = <<>> THEN where
    ELSE LET a == Head(attachments) IN
         LeftFold(Append(where,
                         [conn |-> IF where = <<>> THEN ""
                                   ELSE IF a.parent = "And" THEN "AND" ELSE "OR",
                          pred |-> OwnPredicate(a.leaf)]),
                  Tail(attachments))

\* C23: the compiled predicate is the left fold of the tree's leaves: the
\* leaves' predicates are appended to the query in depth-first
\* left-to-right order, each attached with the operator of its immediate
\* parent (AND under And, OR under Or, AND for a top-level leaf); the mode
\* a composite is compiled in plays no part and no nested group is formed.
C23_LeftFold ==
    (Done /\ result.tag = "Ok") =>
        /\ result.query.where = LeftFold(query.where, Attachments(filter, "And"))
        /\ result.query.rest = query.rest

\* And([a = 1, Or([b = 3, a = 1])]) has been compiled on the bare query:
\* the WHERE clause is the chain a = 1 OR b = 3 OR a = 1, the first leaf of
\* the nested Or attached with OR.
C23_Witness ==
    /\ Done
    /\ query.where = <<>>
    /\ filter = Composite("And",
                  <<Leaf("Equal", <<97>>, Val("Int", <<1>>)),
                    Composite("Or", <<Leaf("Equal", <<98>>, Val("Int", <<3>>)),
                                      Leaf("Equal", <<97>>, Val("Int", <<1>>))>>)>>)
    /\ result.tag = "Ok"
    /\ Len(result.query.where) = 3
    /\ result.query.where[2].conn = "OR"
    /\ result.query.where[2].pred = OwnPredicate(Leaf("Equal", <<98>>, Val("Int", <<3>>)))
    /\ result.query.where[3].conn = "OR"

\* C24: compiling a tree that holds only empty composites (And([]), Or([]),
\* alone or nested, so in either mode) returns Ok with the query it was
\* given, no predicate appended: Or([]) selects what the base query
\* selects.
C24_EmptyComposite ==
    (Done /\ filter.kind \in Composites /\ LeafSeq(filter) = <<>>) =>
        /\ result = Ok(query)
        /\ \A e \in Entities : Selects(result.query, e) <=> Selects(query, e)
        /\ \A c \in Composites, m \in {"And", "Or"} :
              store_filter_by_mode(query, Composite(c, <<>>), m) = Ok(query)

\* Or([]) has been compiled on a query that carries a predicate: the query
\* is returned as it was and still selects {a: 1}.
C24_Witness ==
    /\ Done
    /\ filter = Composite("Or", <<>>)
    /\ query.where # <<>>
    /\ result = Ok(query)
    /\ Selects(result.query, [a \in Attributes |-> Val("Int", <<1>>)])

\* C25 (as claimed): the predicate of every supported (operator, variant)
\* leaf is well-formed in its literal text: every parenthesis opened is
\* closed.
C25_BalancedParentheses ==
    (Done /\ IsLeaf(filter) /\ result.tag = "Ok") =>
        WellFormed(Last(result.query).pred)

(***************************************************************************)
(* The claims about GraphQLServer.                                         *)
(***************************************************************************)
\* The schema the handler stores for the input schema s.
DerivedFrom(s) == Some(Schema(s.id, api_schema(s.document).document))

\* The event is the k-th, and the latest, the schema event sink accepted.
IsSent(k, event) == Len(server.sent) = k /\ server.sent[k] = event

\* C21 (as claimed): before any schema event the stored schema is None, and
\* once SchemaAdded(s) has been sent on the schema event sink, with s a
\* schema the API schema derives from, the stored schema eventually is
\* Some(schema) with the id of s and the derived document (the types of s
\* and the Query type).
C21_SchemaEventuallyStored ==
    /\ [](server.sent = <<>> => server.schema = None)
    /\ \A s \in InputSchemas, k \in 1..MaxEvents :
          (IsSent(k, SchemaAdded(s)) /\ api_schema(s.document).tag = "Ok")
              ~> (/\ server.schema = DerivedFrom(s)
                  /\ s.document \subseteq server.schema.value.document
                  /\ "Query" \in server.schema.value.document)

\* The step is a call of query_stream, or of serve, returning.
QueryStreamCalled ==
    server'.calls = server.calls + 1 /\ server'.returned.call = "query_stream"

ServeCalled ==
    server'.calls = server.calls + 1 /\ server'.returned.call = "serve"

\* C26: query_stream makes the query channel at most once.  The call made
\* while there is no query sink returns Ok(stream) and keeps the sink of
\* the same channel; every call made after it returns
\* Err(AlreadyCreated) and leaves query_sink as it is; no step turns a
\* query_sink that is Some into None or into another sink.
C26_QueryStreamAtMostOnce ==
    [][ /\ server'.channels <= 1
        /\ server.query_sink # None => server'.query_sink = server.query_sink
        /\ QueryStreamCalled =>
              IF server.channels = 0
              THEN /\ server'.returned.tag = "Ok"
                   /\ server'.query_sink = Some(server'.returned.value)
              ELSE /\ server'.returned = Returned("query_stream", "Err", "AlreadyCreated", 0)
                   /\ server'.query_sink = server.query_sink ]_vars

\* query_stream has been called twice: the second call was refused and the
\* sink of the first channel is still there.
C26_Witness ==
    /\ server.returned = Returned("query_stream", "Err", "AlreadyCreated", 0)
    /\ server.query_sink = Some(1)
    /\ server.channels = 1

\* C27: serve called before any query_stream call succeeded returns
\* Err(OrphanError), binds no port and changes nothing of the server;
\* called after one, it goes on to bind: it returns Ok with the port bound,
\* or BindError with the ports as they were.
C27_ServeNeedsQueryStream ==
    [][ ServeCalled =>
          IF server.channels = 0
          THEN /\ server'.returned = Returned("serve", "Err", "OrphanError", 0)
               /\ [server' EXCEPT !.returned = server.returned,
                                  !.calls = server.calls] = server
          ELSE \/ /\ server'.returned.tag = "Ok"
                  /\ server'.returned.value \notin server.ports
                  /\ server'.ports = server.ports \cup {server'.returned.value}
               \/ /\ server'.returned = Returned("serve", "Err", "BindError", 0)
                  /\ server'.ports = server.ports ]_vars

\* serve has been refused for want of a query stream, on a host where the
\* port was free: the port is still free.
C27_Witness ==
    /\ server.returned = Returned("serve", "Err", "OrphanError", 0)
    /\ server.channels = 0
    /\ server.ports = {}

(***************************************************************************)
(* The claims about GraphQLService.                                        *)
(***************************************************************************)
\* A POST /graphql request has its response.
Answered ==
    /\ service.pc = "responded"
    /\ service.request.method = "POST"
    /\ service.request.path = "/graphql"

\* The body of the request in hand was read and made a query.
Parses ==
    /\ service.request.body # "unreadable"
    /\ GraphQLRequest(service.request.body, service.schema).tag = "Ok"

\* The runner was invoked once if the body made a query and not at all if
\* it did not, and a body without a "query" field has a 400 response
\* carrying the message.
RunnerInvokedIffParsed ==
    /\ service.runs = (IF Parses THEN 1 ELSE 0)
    /\ (service.request.body = "{}" /\ service.schema # None) =>
           /\ service.runs = 0
           /\ service.response.status = 400
           /\ service.response.errors = <<"The \"query\" field missing in request data">>

Coerces(item) ==
    IF resolver.type.kind = "Enum"
    THEN /\ item.variant = "Enum"
         /\ \E i \in 1..Len(resolver.type.values) : resolver.type.values[i] = item.text
    ELSE /\ item.variant = resolver.type.name
         /\ item.variant \in {"Boolean", "Float", "Int", "String"}

\* C28: resolve_enum_values and resolve_scalar_values are all-or-nothing.
\* Given a list, they return the list of the coerced values, of the same
\* length and in the same order, iff every item coerces to the type, and
\* Null when an item does not; given no value or a value that is no list
\* they return Null; a list returned is never shorter than the list given.
C28_AllOrNothing ==
    resolver.pc = "done" =>
        LET given == resolver.value
            returned == resolver.returned
            isList == given # None /\ given.value.variant = "List"
        IN  /\ ~isList => returned = QNull
            /\ isList =>
                  LET items == given.value.items
                  IN  /\ returned.variant = "List" <=>
                             \A i \in 1..Len(items) : Coerces(items[i])
                      /\ returned.variant = "List" =>
                             /\ Len(returned.items) = Len(items)
                             /\ \A i \in 1..Len(items) :
                                   /\ Coerces(returned.items[i])
                                   /\ returned.items[i] = items[i]
                      /\ returned.variant # "List" => returned = QNull

\* A list of three items of which two coerce and one does not has been
\* resolved to Null, not to the two.
C28_Witness ==
    /\ resolver.pc = "done"
    /\ resolver.value # None
    /\ resolver.value.value.variant = "List"
    /\ Len(resolver.value.value.items) = 3
    /\ Cardinality({i \in 1..3 : Coerces(resolver.value.value.items[i])}) = 2
    /\ resolver.returned = QNull

====
